---- MODULE Spec2Model ----
(***************************************************************************)
(* DA ID Scanner (src/main.py): a Streamlit script that records driver-id  *)
(* scans in a per-session ledger (st.session_state.local_data), appends    *)
(* every scan to a per-station CSV backup file, derives a same-day         *)
(* same-station count with a break reminder, and mirrors the scan to a     *)
(* per-station tab of one Google spreadsheet.                              *)
(*                                                                         *)
(* One script run (main) of a session is modelled as a chain of steps, one *)
(* per access to a resource that outlives the run: the session-local part  *)
(* (Main), the existence test of the backup file (CsvIsFile), the write of *)
(* the backup file (CsvWrite...), the count (Count), the lookup of the     *)
(* worksheet (SyncStart) and the four remote calls of sync_single_scan.    *)
(* Strings that the code inspects (the driver id) are sequences of         *)
(* characters; formatted dates and times are the clock readings they       *)
(* print.                                                                  *)
(***************************************************************************)
EXTENDS Naturals, Sequences, FiniteSets, TLC

\* ----------------------------------------------------------------- bounds
MaxScans == 2       \* scans that pass validation (Spec, SpecSheet, SpecConc)
MaxCount == 3       \* scans that pass validation (SpecCount)
MaxDeep == 6        \* scans that pass validation (SpecBreak, SpecDown, SpecRestart)
MaxEnv == 1         \* events of the environment: a failure of the file or of
                    \* the remote store, a session restart, a midnight
MaxRows == 3        \* rows of a tab that exists before the program runs

\* ------------------------------------------------------- program constants
BreakThreshold == 5

Sessions == {1, 2}
\* Two of the STATION_TABS keys (src/main.py:13-19).
Stations == {"DUD2", "DUD3"}
NoStation == "-"

\* The text of the Driver ID field: strings over a blank and a letter.
Blank == " "
DriverIds == {<<>>, <<Blank>>, <<"a">>, <<Blank, "a">>}

\* ---------------------------------------------------------------- strings
RECURSIVE LStrip(_)
LStrip(s) ==
    IF s # <<>> /\ Head(s) = Blank THEN LStrip(Tail(s)) ELSE s

RECURSIVE RStrip(_)
RStrip(s) ==
    IF s # <<>> /\ s[Len(s)] = Blank THEN RStrip(SubSeq(s, 1, Len(s) - 1)) ELSE s

\* str.strip()
Strip(s) == RStrip(LStrip(s))

\* ------------------------------------------------------------------ clock
\* datetime.now() is the number of the day, from day 1 on; the time of day has
\* one value, so the scans of a day carry the same scan_time (as scans within
\* one second do).
Days == 1 .. 1 + MaxEnv

\* strftime('%H:%M:%S') and strftime('%Y-%m-%d') of a clock reading.
FormatTime(t) == 12
FormatDate(t) == t

\* ------------------------------------------------------------------- rows
\* A line of a backup file or a row of a tab. kind tells what the row holds:
\*   csv_header    Driver ID, Scan Time, Scan Date, Station, Saved At
\*   sheet_header  Driver ID, Scan Time, Scan Date, Station, Uploaded At
\*   data          the five fields of a scan
\*   foreign       a row that was in the tab before, first column filled
\*   note          a row that was in the tab before, values in columns B-E only
\*   blank         a row without values
Row(kind, driver_id, scan_time, scan_date, station, stamp) ==
    [kind |-> kind, driver_id |-> driver_id, scan_time |-> scan_time,
     scan_date |-> scan_date, station |-> station, stamp |-> stamp]

PlainRow(kind) == Row(kind, <<>>, 0, 0, NoStation, 0)

CsvHeader == PlainRow("csv_header")
SheetHeader == PlainRow("sheet_header")
BlankRow == PlainRow("blank")

DataRow(driver_id, scan_time, scan_date, station, stamp) ==
    Row("data", driver_id, scan_time, scan_date, station, stamp)

\* Whether the row has a value in column A.
FirstColumnFilled(r) == r.kind \in {"sheet_header", "csv_header", "data", "foreign"}

\* --------------------------------------------------------------- messages
Msg(kind, driver_id, count, station) ==
    [kind |-> kind, driver_id |-> driver_id, count |-> count, station |-> station]

PlainMsg(kind) == Msg(kind, <<>>, 0, NoStation)

\* ------------------------------------------------------------------ state
VARIABLES
    keys,           \* session -> the keys present in st.session_state
    local_data,     \* session -> st.session_state.local_data, the ledger
    status_text,    \* session -> st.session_state.status_text
    count_message,  \* session -> st.session_state.count_message
    count_color,    \* session -> st.session_state.count_color
    sheets,         \* session -> st.session_state.sheets: station -> handle?
    pc,             \* session -> where its script run stands
    frame,          \* session -> arguments and locals of the running scan
    outcome,        \* session -> how the last script run ended
    calls,          \* session -> remote calls made by the running scan
    nth,            \* session -> <<driver, station, date>> -> validated scans
    file_on_disk,   \* the stations whose backup file exists
    file_rows,      \* station -> the lines of its backup file
    written,        \* station -> the events whose file write succeeded
    tabs,           \* station -> the rows of its tab, up to the last value
    synced,         \* station -> the row writes that line 141 completed
    now,            \* the clock
    scans,          \* scans that passed validation so far, over all sessions
    env             \* events of the environment so far

vars == <<keys, local_data, status_text, count_message, count_color, sheets,
          pc, frame, outcome, calls, nth, file_on_disk, file_rows,
          written, tabs, synced, now, scans, env>>

session_state == <<keys, local_data, status_text, count_message, count_color, sheets>>
disk == <<file_on_disk, file_rows, written>>

AllKeys == {"local_data", "stations", "status_text", "count_message",
            "count_color", "sheets", "sheets_initialized"}

NoFrame ==
    [driver_id |-> <<>>, station |-> NoStation, scan_time |-> 0, scan_date |-> 0,
     file_exists |-> FALSE, count |-> 0, existing_data |-> <<>>, values |-> <<>>,
     next_row |-> 0]

\* st.session_state.sheets: "handle" a worksheet object, "none" the None that
\* line 55 stores, "missing" no entry for the station (line 62, or not set yet).
NoSheets == [st \in Stations |-> "missing"]
SheetOutcomes == {NoSheets} \cup [Stations -> {"handle", "none"}]

Triples == DriverIds \X Stations \X Days

Init ==
    /\ keys = [s \in Sessions |-> {}]
    /\ local_data = [s \in Sessions |-> <<>>]
    /\ status_text = [s \in Sessions |-> PlainMsg("unset")]
    /\ count_message = [s \in Sessions |-> PlainMsg("unset")]
    /\ count_color = [s \in Sessions |-> "unset"]
    /\ sheets = [s \in Sessions |-> NoSheets]
    /\ pc = [s \in Sessions |-> "idle"]
    /\ frame = [s \in Sessions |-> NoFrame]
    /\ outcome = [s \in Sessions |-> "none"]
    /\ calls = [s \in Sessions |-> 0]
    /\ nth = [s \in Sessions |-> [k \in Triples |-> 0]]
    /\ file_on_disk = {}
    /\ file_rows = [st \in Stations |-> <<>>]
    /\ written = [st \in Stations |-> <<>>]
    /\ tabs = [st \in Stations |-> <<>>]
    /\ synced = [st \in Stations |-> <<>>]
    /\ now = 1
    /\ scans = 0
    /\ env = 0

\* ------------------------------------------------------------ main, scan_id
\* A variant of InitLocalData: a new session loads the ledger from the events
\* of the backup files.
InitLocalDataFromFiles(s) ==
    IF "local_data" \in keys[s] THEN local_data[s]
    ELSE written["DUD2"] \o written["DUD3"]

\* A variant of InitLocalData: the ledger is reset by every script run.
InitLocalDataAlways(s) == <<>>

\* initialize_session_state: a key is set only when it is absent.
InitLocalData(s) == IF "local_data" \in keys[s] THEN local_data[s] ELSE <<>>
InitCountMessage(s) ==
    IF "count_message" \in keys[s] THEN count_message[s] ELSE PlainMsg("empty")
InitCountColor(s) ==
    IF "count_color" \in keys[s] THEN count_color[s] ELSE "lightgreen"
InitStatusText(s) ==
    IF "status_text" \in keys[s] THEN status_text[s] ELSE PlainMsg("initializing")

\* A variant of SheetsAfterInit: one try around the loop over the stations,
\* so that the failure of one tab leaves the session without any.
SheetsAfterInitAllOrNone(s, conn) ==
    IF "sheets_initialized" \in keys[s] THEN sheets[s]
    ELSE IF \E st \in Stations : conn[st] # "handle" THEN NoSheets
    ELSE conn

\* initialize_google_sheets: runs once per session; conn is what the connection
\* attempt gives. A failed connection leaves an empty map.
SheetsAfterInit(s, conn) ==
    IF "sheets_initialized" \in keys[s] THEN sheets[s] ELSE conn
StatusAfterInit(s, conn) ==
    IF "sheets_initialized" \in keys[s] THEN InitStatusText(s)
    ELSE IF conn = NoSheets THEN PlainMsg("connection_failed")
    ELSE PlainMsg("connected")

\* The guard of line 181: the button was pressed and the text is not empty.
FormSubmitted(scan_button, driver_id) == scan_button /\ driver_id # <<>>

\* The guard of line 82.
PassesValidation(driver_id) == Strip(driver_id) # <<>>

\* The event appended at line 90.
Event(driver_id, scan_time, scan_date, station) ==
    <<driver_id, scan_time, scan_date, station>>

\* A variant of AppendToLedger: one list of the module for all sessions, not
\* one of st.session_state.
AppendToSharedLedger(s, e) ==
    [t \in Sessions |->
        Append(IF t = s THEN InitLocalData(s) ELSE local_data[t], e)]

\* Line 90: the event goes to the ledger of the session that scans.
AppendToLedger(s, e) == [local_data EXCEPT ![s] = Append(InitLocalData(s), e)]

\* One script run up to the first access to the backup file: main's two
\* initializers, the form, and scan_id's lines 82-91.
Main(s, scan_button, driver_id, station, conn) ==
    /\ pc[s] = "idle"
    /\ scan_button => "local_data" \in keys[s]
    /\ keys' = [keys EXCEPT ![s] = AllKeys]
    /\ sheets' = [sheets EXCEPT ![s] = SheetsAfterInit(s, conn)]
    /\ count_message' = [count_message EXCEPT ![s] = InitCountMessage(s)]
    /\ count_color' = [count_color EXCEPT ![s] = InitCountColor(s)]
    /\ calls' = [calls EXCEPT ![s] = 0]
    /\ IF ~FormSubmitted(scan_button, driver_id)
       THEN /\ local_data' = [local_data EXCEPT ![s] = InitLocalData(s)]
            /\ status_text' = [status_text EXCEPT ![s] = StatusAfterInit(s, conn)]
            /\ outcome' = [outcome EXCEPT ![s] =
                    IF scan_button THEN "ignored" ELSE outcome[s]]
            /\ frame' = [frame EXCEPT ![s] = IF scan_button THEN NoFrame ELSE frame[s]]
            /\ UNCHANGED <<pc, nth, scans>>
       ELSE IF ~PassesValidation(driver_id)
       THEN /\ local_data' = [local_data EXCEPT ![s] = InitLocalData(s)]
            /\ status_text' = [status_text EXCEPT ![s] = StatusAfterInit(s, conn)]
            /\ outcome' = [outcome EXCEPT ![s] = "validation_error"]
            /\ frame' = [frame EXCEPT ![s] = NoFrame]
            /\ UNCHANGED <<pc, nth, scans>>
       ELSE /\ local_data' =
                    AppendToLedger(s, Event(driver_id, FormatTime(now),
                                            FormatDate(now), station))
            /\ status_text' = [status_text EXCEPT ![s] =
                    Msg("scanned_locally", driver_id, 0, station)]
            /\ frame' = [frame EXCEPT ![s] =
                    [NoFrame EXCEPT !.driver_id = driver_id, !.station = station,
                                    !.scan_time = FormatTime(now),
                                    !.scan_date = FormatDate(now)]]
            /\ nth' = [nth EXCEPT ![s][<<driver_id, station, FormatDate(now)>>] = @ + 1]
            /\ scans' = scans + 1
            /\ outcome' = [outcome EXCEPT ![s] = "running"]
            /\ pc' = [pc EXCEPT ![s] = "csv_isfile"]
    /\ UNCHANGED <<disk, tabs, synced, now, env>>

\* ------------------------------------------------------------- save_to_csv
\* Line 114: os.path.isfile(filename).
CsvIsFile(s) ==
    /\ pc[s] = "csv_isfile"
    /\ frame' = [frame EXCEPT ![s].file_exists = frame[s].station \in file_on_disk]
    /\ pc' = [pc EXCEPT ![s] = "csv_open"]
    /\ UNCHANGED <<session_state, outcome, calls, nth, disk, tabs, synced, now, scans, env>>

\* The lines that one successful save_to_csv appends (lines 118-120).
CsvLines(file_exists, driver_id, scan_time, scan_date, station, saved_at) ==
    (IF file_exists THEN <<>> ELSE <<CsvHeader>>)
        \o <<DataRow(driver_id, scan_time, scan_date, station, saved_at)>>

\* Lines 116-120 when the file is opened, written and closed.
CsvWrite(s) ==
    LET f == frame[s] IN
    /\ pc[s] = "csv_open"
    /\ file_on_disk' = file_on_disk \cup {f.station}
    /\ file_rows' = [file_rows EXCEPT ![f.station] =
            @ \o CsvLines(f.file_exists, f.driver_id, f.scan_time, f.scan_date,
                          f.station, now)]
    /\ written' = [written EXCEPT ![f.station] =
            Append(@, Event(f.driver_id, f.scan_time, f.scan_date, f.station))]
    /\ pc' = [pc EXCEPT ![s] = "count"]
    /\ UNCHANGED <<session_state, frame, outcome, calls, nth, tabs, synced, now, scans, env>>

\* A variant of CsvFailedLedger: the event of line 90 is taken back when the
\* file write fails.
CsvFailedRollback(s) ==
    [local_data EXCEPT ![s] = SubSeq(@, 1, Len(@) - 1)]

\* The ledger after an exception of save_to_csv: line 94 is not inside a try,
\* nothing touches st.session_state.local_data on the way out.
CsvFailedLedger(s) == local_data

\* A variant of CsvOpenFails: the exception is caught around line 94 and
\* scan_id goes on to count and to sync.
CsvOpenFailsCaught(s) ==
    /\ pc[s] = "csv_open"
    /\ env < MaxEnv
    /\ env' = env + 1
    /\ pc' = [pc EXCEPT ![s] = "count"]
    /\ UNCHANGED <<session_state, frame, outcome, calls, nth, disk, tabs,
                   synced, now, scans>>

\* Line 116 raises (no permission, no directory): nothing is created, the
\* exception leaves scan_id and main, and the script run ends.
CsvOpenFails(s) ==
    /\ pc[s] = "csv_open"
    /\ env < MaxEnv
    /\ env' = env + 1
    /\ local_data' = CsvFailedLedger(s)
    /\ outcome' = [outcome EXCEPT ![s] = "exception"]
    /\ pc' = [pc EXCEPT ![s] = "idle"]
    /\ UNCHANGED <<keys, status_text, count_message, count_color, sheets,
                   frame, calls, nth, disk, tabs, synced, now, scans>>

\* Line 116 opens the file, which creates it when it is absent, and the
\* buffered rows cannot be written when the with block closes it (disk full):
\* the file is left as open made it and the exception ends the script run.
CsvFlushFails(s) ==
    /\ pc[s] = "csv_open"
    /\ env < MaxEnv
    /\ env' = env + 1
    /\ file_on_disk' = file_on_disk \cup {frame[s].station}
    /\ local_data' = CsvFailedLedger(s)
    /\ outcome' = [outcome EXCEPT ![s] = "exception"]
    /\ pc' = [pc EXCEPT ![s] = "idle"]
    /\ UNCHANGED <<keys, status_text, count_message, count_color, sheets,
                   frame, calls, nth, file_rows, written, tabs, synced, now, scans>>

\* ------------------------------------------------------------------ count
\* A variant of TodayScans: the station is not compared.
TodayScansAnyStation(ledger, driver_id, scan_date, station) ==
    SelectSeq(ledger, LAMBDA d : d[1] = driver_id /\ d[3] = scan_date)

\* Line 97: the events of the ledger with this driver, date and station.
TodayScans(ledger, driver_id, scan_date, station) ==
    SelectSeq(ledger, LAMBDA d : d[1] = driver_id /\ d[3] = scan_date /\ d[4] = station)

\* A variant of BreakDue: the reminder starts at the threshold itself.
BreakDueAtThreshold(count) == count >= BreakThreshold

\* Line 101.
BreakDue(count) == count > BreakThreshold

\* Lines 102-106.
CountMessage(count, driver_id, station) ==
    IF BreakDue(count) THEN Msg("take_break", driver_id, count, station)
    ELSE Msg("scanned_today", driver_id, count, station)
CountColor(count) == IF BreakDue(count) THEN "yellow" ELSE "lightgreen"

\* Lines 96-106 of scan_id.
Count(s) ==
    LET f == frame[s]
        count == Len(TodayScans(local_data[s], f.driver_id, f.scan_date, f.station))
    IN
    /\ pc[s] = "count"
    /\ frame' = [frame EXCEPT ![s].count = count]
    /\ count_message' = [count_message EXCEPT ![s] =
            CountMessage(count, f.driver_id, f.station)]
    /\ count_color' = [count_color EXCEPT ![s] = CountColor(count)]
    /\ pc' = [pc EXCEPT ![s] = "sync"]
    /\ UNCHANGED <<keys, local_data, status_text, sheets, outcome, calls,
                   nth, disk, tabs, synced, now, scans, env>>

\* --------------------------------------------------------- the remote tab
\* A variant of GetAllValuesOf: a tab without values gives one empty row.
GetAllValuesNested(tab) == IF tab = <<>> THEN <<BlankRow>> ELSE tab

\* Worksheet.get_all_values(): the rows up to the last one that holds a value.
GetAllValuesOf(tab) == tab

\* The row number of the last row of the tab with a value in column A, 0 if none.
LastFilled(tab) ==
    IF \E i \in 1 .. Len(tab) : FirstColumnFilled(tab[i])
    THEN CHOOSE i \in 1 .. Len(tab) :
            /\ FirstColumnFilled(tab[i])
            /\ \A j \in i + 1 .. Len(tab) : ~FirstColumnFilled(tab[j])
    ELSE 0

\* Worksheet.col_values(1): column A down to its last value, an empty string for
\* every cell without a value above it.
ColValuesOf(tab) ==
    [i \in 1 .. LastFilled(tab) |->
        IF FirstColumnFilled(tab[i]) THEN tab[i].kind ELSE ""]

\* Worksheet.append_row(row): the row goes below the last row with values.
AppendRowTo(tab, row) == Append(tab, row)

\* A variant of UpdateRow: the row is written to row n and again below it.
UpdateRowTwice(tab, n, row) ==
    IF n <= Len(tab) THEN [tab EXCEPT ![n] = row] \o <<row>>
    ELSE tab \o [i \in 1 .. n - Len(tab) - 1 |-> BlankRow] \o <<row, row>>

\* Worksheet.update("A{n}:E{n}", [row]): columns A-E of row n are replaced.
UpdateRow(tab, n, row) ==
    IF n <= Len(tab) THEN [tab EXCEPT ![n] = row]
    ELSE tab \o [i \in 1 .. n - Len(tab) - 1 |-> BlankRow] \o <<row>>

\* A variant of NextRow: the values of the column are counted, not its length.
NextRowByCount(values) ==
    LET n == Cardinality({i \in 1 .. Len(values) : values[i] # ""}) IN
    IF n > 0 THEN n + 1 ELSE 2

\* A variant of NextRow: the row below the header, whatever the column holds.
NextRowSecond(values) == 2

\* Line 138.
NextRow(values) == IF values # <<>> THEN Len(values) + 1 ELSE 2

\* ------------------------------------------------------- sync_single_scan
\* A variant of HasSheet: an entry of the map counts, whatever it holds.
HasSheetEntry(s, station) == sheets[s][station] # "missing"

\* Lines 124-125: st.session_state.sheets.get(station) is a worksheet.
HasSheet(s, station) == sheets[s][station] = "handle"

\* Lines 124-127.
SyncStart(s) ==
    LET f == frame[s] IN
    /\ pc[s] = "sync"
    /\ IF HasSheet(s, f.station)
       THEN /\ pc' = [pc EXCEPT ![s] = "get_all_values"]
            /\ UNCHANGED <<status_text, outcome>>
       ELSE /\ status_text' = [status_text EXCEPT ![s] =
                    Msg("no_tab", <<>>, 0, f.station)]
            /\ outcome' = [outcome EXCEPT ![s] = "skipped"]
            /\ pc' = [pc EXCEPT ![s] = "idle"]
    /\ UNCHANGED <<keys, local_data, count_message, count_color, sheets, frame,
                   calls, nth, disk, tabs, synced, now, scans, env>>

\* Line 130, and the test of line 133.
GetAllValues(s) ==
    LET f == frame[s]
        existing_data == GetAllValuesOf(tabs[f.station])
    IN
    /\ pc[s] = "get_all_values"
    /\ frame' = [frame EXCEPT ![s].existing_data = existing_data]
    /\ calls' = [calls EXCEPT ![s] = @ + 1]
    /\ pc' = [pc EXCEPT ![s] =
            IF existing_data = <<>> THEN "append_row" ELSE "col_values"]
    /\ UNCHANGED <<session_state, outcome, nth, disk, tabs, synced, now, scans, env>>

\* Line 134.
AppendHeader(s) ==
    LET f == frame[s] IN
    /\ pc[s] = "append_row"
    /\ tabs' = [tabs EXCEPT ![f.station] = AppendRowTo(@, SheetHeader)]
    /\ calls' = [calls EXCEPT ![s] = @ + 1]
    /\ pc' = [pc EXCEPT ![s] = "col_values"]
    /\ UNCHANGED <<session_state, frame, outcome, nth, disk, synced, now, scans, env>>

\* Lines 137-138.
ColValues(s) ==
    LET f == frame[s]
        values == ColValuesOf(tabs[f.station])
    IN
    /\ pc[s] = "col_values"
    /\ frame' = [frame EXCEPT ![s].values = values, ![s].next_row = NextRow(values)]
    /\ calls' = [calls EXCEPT ![s] = @ + 1]
    /\ pc' = [pc EXCEPT ![s] = "update"]
    /\ UNCHANGED <<session_state, outcome, nth, disk, tabs, synced, now, scans, env>>

\* Lines 141-146.
Update(s) ==
    LET f == frame[s] IN
    /\ pc[s] = "update"
    /\ tabs' = [tabs EXCEPT ![f.station] =
            UpdateRow(@, f.next_row,
                      DataRow(f.driver_id, f.scan_time, f.scan_date, f.station, now))]
    /\ synced' = [synced EXCEPT ![f.station] =
            Append(@, [session |-> s, row |-> f.next_row,
                       data |-> DataRow(f.driver_id, f.scan_time, f.scan_date,
                                        f.station, now)])]
    /\ calls' = [calls EXCEPT ![s] = @ + 1]
    /\ status_text' = [status_text EXCEPT ![s] =
            Msg("uploaded", f.driver_id, 0, f.station)]
    /\ outcome' = [outcome EXCEPT ![s] = "synced"]
    /\ pc' = [pc EXCEPT ![s] = "idle"]
    /\ UNCHANGED <<keys, local_data, count_message, count_color, sheets, frame,
                   nth, disk, now, scans, env>>

RemotePcs == {"get_all_values", "append_row", "col_values", "update"}

\* Variants of the handler: it takes the event back out of the ledger; it
\* clears the count message.
SyncFailedRollback(s) ==
    [local_data EXCEPT ![s] = SubSeq(@, 1, Len(@) - 1)]
SyncFailedClearsCount(s) == [count_message EXCEPT ![s] = PlainMsg("empty")]

\* What the handler of lines 148-150 does to the session state.
SyncFailedStatus(s) == [status_text EXCEPT ![s] = PlainMsg("sync_failed")]
SyncFailedLedger(s) == local_data
SyncFailedCountMessage(s) == count_message
SyncFailedCountColor(s) == count_color

\* Lines 148-150: the remote call the scan is about to make raises (network,
\* authorization, quota); the call leaves the tab as it was. cost is what the
\* failure takes from the bound on the events of the environment.
RemoteRaises(s, cost) ==
    /\ pc[s] \in RemotePcs
    /\ env + cost <= MaxEnv
    /\ env' = env + cost
    /\ calls' = [calls EXCEPT ![s] = @ + 1]
    /\ status_text' = SyncFailedStatus(s)
    /\ local_data' = SyncFailedLedger(s)
    /\ count_message' = SyncFailedCountMessage(s)
    /\ count_color' = SyncFailedCountColor(s)
    /\ outcome' = [outcome EXCEPT ![s] = "sync_error"]
    /\ pc' = [pc EXCEPT ![s] = "idle"]
    /\ UNCHANGED <<keys, sheets, frame, nth, disk, tabs, synced, now, scans>>

\* ------------------------------------------------------------ environment
\* The browser session ends and a new one starts: st.session_state is empty
\* again. The backup files and the tabs stay.
NewSession(s) ==
    /\ pc[s] = "idle"
    /\ keys[s] # {}
    /\ env < MaxEnv
    /\ env' = env + 1
    /\ keys' = [keys EXCEPT ![s] = {}]
    /\ local_data' = [local_data EXCEPT ![s] = <<>>]
    /\ status_text' = [status_text EXCEPT ![s] = PlainMsg("unset")]
    /\ count_message' = [count_message EXCEPT ![s] = PlainMsg("unset")]
    /\ count_color' = [count_color EXCEPT ![s] = "unset"]
    /\ sheets' = [sheets EXCEPT ![s] = NoSheets]
    /\ frame' = [frame EXCEPT ![s] = NoFrame]
    /\ outcome' = [outcome EXCEPT ![s] = "none"]
    /\ calls' = [calls EXCEPT ![s] = 0]
    /\ nth' = [nth EXCEPT ![s] = [k \in Triples |-> 0]]
    /\ UNCHANGED <<pc, disk, tabs, synced, now, scans>>

\* Midnight.
NextDay ==
    /\ env < MaxEnv
    /\ env' = env + 1
    /\ now' = now + 1
    /\ UNCHANGED <<session_state, pc, frame, outcome, calls, nth, disk, tabs, synced, scans>>

\* --------------------------------------------------------- specifications
\* What the connection attempt of a script run can give: it is made only in
\* the first run of a session (line 24).
ConnOutcomes(s) ==
    IF "sheets_initialized" \in keys[s] THEN {sheets[s]} ELSE SheetOutcomes

\* The steps of a script run after Main.
Step(s) ==
    \/ CsvIsFile(s)
    \/ CsvWrite(s)
    \/ Count(s)
    \/ SyncStart(s)
    \/ GetAllValues(s)
    \/ AppendHeader(s)
    \/ ColValues(s)
    \/ Update(s)

Fault(s) ==
    \/ CsvOpenFails(s)
    \/ CsvFlushFails(s)
    \/ RemoteRaises(s, 1)

\* One session, every input, every failure, restarts, the clock.
Next ==
    \/ \E b \in BOOLEAN, d \in DriverIds, st \in Stations, conn \in ConnOutcomes(1) :
            scans < MaxScans /\ Main(1, b, d, st, conn)
    \/ Step(1)
    \/ Fault(1)
    \/ NewSession(1)
    \/ NextDay

Spec == Init /\ [][Next]_vars

\* One session at every station over several days, with a healthy remote store
\* and a backup file that may fail to open.
NextCount ==
    \/ \E b \in BOOLEAN, d \in DriverIds, st \in Stations, conn \in ConnOutcomes(1) :
            scans < MaxCount /\ Main(1, b, d, st, conn)
    \/ Step(1)
    \/ CsvOpenFails(1)
    \/ NextDay

SpecCount == Init /\ [][NextCount]_vars

\* One session at one station with a healthy file system and a healthy remote
\* store, long enough to pass the break threshold.
NextBreak ==
    \/ \E b \in BOOLEAN, d \in DriverIds, conn \in ConnOutcomes(1) :
            scans < MaxDeep /\ Main(1, b, d, "DUD2", conn)
    \/ Step(1)

SpecBreak == Init /\ [][NextBreak]_vars

\* One session at one station whose remote store raises on every call.
NextDown ==
    \/ \E b \in BOOLEAN, d \in DriverIds, conn \in ConnOutcomes(1) :
            scans < MaxDeep /\ Main(1, b, d, "DUD2", conn)
    \/ CsvIsFile(1)
    \/ CsvWrite(1)
    \/ Count(1)
    \/ SyncStart(1)
    \/ RemoteRaises(1, 0)

SpecDown == Init /\ [][NextDown]_vars

\* The tabs that can exist before the program runs: up to MaxRows rows, each
\* with a value in column A, with values in other columns only, or blank; the
\* last row holds a value.
RECURSIVE TabsOfLength(_)
TabsOfLength(n) ==
    IF n = 0 THEN {<<>>}
    ELSE {Append(t, PlainRow(k)) : t \in TabsOfLength(n - 1),
                                   k \in {"foreign", "note", "blank"}}
ExistingTabs ==
    {t \in UNION {TabsOfLength(n) : n \in 0 .. MaxRows} :
        t = <<>> \/ t[Len(t)].kind # "blank"}

InitSheet ==
    \E t \in ExistingTabs :
        /\ tabs = [st \in Stations |-> IF st = "DUD2" THEN t ELSE <<>>]
        /\ keys = [s \in Sessions |-> {}]
        /\ local_data = [s \in Sessions |-> <<>>]
        /\ status_text = [s \in Sessions |-> PlainMsg("unset")]
        /\ count_message = [s \in Sessions |-> PlainMsg("unset")]
        /\ count_color = [s \in Sessions |-> "unset"]
        /\ sheets = [s \in Sessions |-> NoSheets]
        /\ pc = [s \in Sessions |-> "idle"]
        /\ frame = [s \in Sessions |-> NoFrame]
        /\ outcome = [s \in Sessions |-> "none"]
        /\ calls = [s \in Sessions |-> 0]
        /\ nth = [s \in Sessions |-> [k \in Triples |-> 0]]
        /\ file_on_disk = {}
        /\ file_rows = [st \in Stations |-> <<>>]
        /\ written = [st \in Stations |-> <<>>]
        /\ synced = [st \in Stations |-> <<>>]
        /\ now = 1
        /\ scans = 0
        /\ env = 0

\* One session at one station whose tab was filled by hand before.
NextSheet ==
    \/ \E b \in BOOLEAN, d \in DriverIds, conn \in ConnOutcomes(1) :
            scans < MaxScans /\ Main(1, b, d, "DUD2", conn)
    \/ Step(1)

SpecSheet == InitSheet /\ [][NextSheet]_vars

\* Two browser sessions of one server process at one station, with a healthy
\* file system and a remote store that may raise; the tab of the other
\* station is opened whenever the connection is made.
ConnOutcomesAt(s, station) ==
    {c \in ConnOutcomes(s) :
        \A st \in Stations \ {station} : c[st] \in {sheets[s][st], "handle"}}

NextConc ==
    \E s \in Sessions :
        \/ \E b \in BOOLEAN, d \in DriverIds, conn \in ConnOutcomesAt(s, "DUD2") :
                scans < MaxScans /\ Main(s, b, d, "DUD2", conn)
        \/ Step(s)
        \/ RemoteRaises(s, 1)

SpecConc == Init /\ [][NextConc]_vars

\* One session at one station with a healthy file system and a healthy remote
\* store, restarted at any moment, with one scan more than the break
\* threshold needs.
NextRestart ==
    \/ \E b \in BOOLEAN, d \in DriverIds, conn \in ConnOutcomesAt(1, "DUD2") :
            scans < MaxDeep + 1 /\ Main(1, b, d, "DUD2", conn)
    \/ Step(1)
    \/ NewSession(1)

SpecRestart == Init /\ [][NextRestart]_vars

\* ================================================================= claims
\* The scan of session s has computed its count, and no later submission has
\* replaced its frame.
Counted(s) ==
    \/ pc[s] \in {"sync"} \cup RemotePcs
    \/ pc[s] = "idle" /\ outcome[s] \in {"skipped", "synced", "sync_error"}

\* The event of the scan that session s runs or ran last.
FrameEvent(s) ==
    <<frame[s].driver_id, frame[s].scan_time, frame[s].scan_date, frame[s].station>>

\* The event that a data line of a backup file or a data row of a tab holds.
RowEvent(r) == <<r.driver_id, r.scan_time, r.scan_date, r.station>>

\* The event of the last scan of session s is the last one of its ledger and
\* a data line of the backup file of its station.
RecordedLocally(s) ==
    /\ local_data[s] # <<>>
    /\ local_data[s][Len(local_data[s])] = FrameEvent(s)
    /\ \E i \in 1 .. Len(file_rows[frame[s].station]) :
            /\ file_rows[frame[s].station][i].kind = "data"
            /\ RowEvent(file_rows[frame[s].station][i]) = FrameEvent(s)

\* The count message and the colour that the claims give for a count.
AlertFor(s, n) ==
    IF n > 5
    THEN /\ count_color[s] = "yellow"
         /\ count_message[s] =
                Msg("take_break", frame[s].driver_id, n, frame[s].station)
    ELSE /\ count_color[s] = "lightgreen"
         /\ count_message[s] =
                Msg("scanned_today", frame[s].driver_id, n, frame[s].station)

\* C1: within one session the n-th scan that passes validation with a given
\* driver, station and date computes count = n, at least 1, whatever scans of
\* other drivers, stations or dates come between.
C1_CountIsNth ==
    \A s \in Sessions :
        Counted(s) =>
            /\ frame[s].count >= 1
            /\ frame[s].count =
                    nth[s][<<frame[s].driver_id, frame[s].station, frame[s].scan_date>>]

\* The second scan of a triple computed 2 with a scan of another triple in the
\* ledger of three.
C1_Witness ==
    /\ Counted(1)
    /\ frame[1].count = 2
    /\ Len(local_data[1]) = 3

\* C2: after the count the state is BREAK_DUE (yellow, take-break message)
\* exactly when the count is above 5 and NORMAL (lightgreen, scanned-today
\* message) exactly when it is at most 5, and the message carries the count.
C2_AlertBoundary ==
    \A s \in Sessions :
        Counted(s) =>
            /\ AlertFor(s, frame[s].count)
            /\ count_color[s] = "yellow" <=> frame[s].count > 5
            /\ count_color[s] = "lightgreen" <=> frame[s].count <= 5

\* The sixth scan of a driver at a station turned the state to BREAK_DUE.
C2_Witness ==
    /\ Counted(1)
    /\ frame[1].count = 6
    /\ count_color[1] = "yellow"
    /\ count_message[1].kind = "take_break"

\* C3: a submission whose driver id is empty or blank is rejected with a
\* validation error reported and changes neither the ledger, the backup
\* files, the tabs nor the count message and colour, and makes no remote call.
C3_BlankRejected ==
    [][\A d \in DriverIds, st \in Stations :
            (Strip(d) = <<>> /\ Main(1, TRUE, d, st, sheets[1])) =>
                /\ outcome'[1] = "validation_error"
                /\ pc'[1] = "idle"
                /\ calls'[1] = 0
                /\ UNCHANGED <<local_data, disk, tabs, count_message, count_color>>]_vars

\* The part of C3 that the code keeps: no side effect of an empty or blank
\* submission; the error is reported exactly when the text is not empty.
C3_NoSideEffect ==
    [][\A d \in DriverIds, st \in Stations :
            (Strip(d) = <<>> /\ Main(1, TRUE, d, st, sheets[1])) =>
                /\ outcome'[1] = (IF d = <<>> THEN "ignored" ELSE "validation_error")
                /\ pc'[1] = "idle"
                /\ calls'[1] = 0
                /\ UNCHANGED <<local_data, disk, tabs, count_message, count_color>>]_vars

\* C4: a backup file that exists holds exactly one header line, its first
\* line (stated for the files that hold a line at all).
C4_OneHeaderFirst ==
    \A st \in file_on_disk :
        file_rows[st] # <<>> =>
            /\ file_rows[st][1] = CsvHeader
            /\ \A i \in 2 .. Len(file_rows[st]) : file_rows[st][i].kind # "csv_header"

\* C5: after k scans whose file write succeeded the backup file of the
\* station holds the header line and the k data lines, in scan order.
C5_HeaderPlusRows ==
    \A st \in Stations :
        written[st] # <<>> =>
            /\ Len(file_rows[st]) = 1 + Len(written[st])
            /\ file_rows[st][1] = CsvHeader
            /\ \A i \in 1 .. Len(written[st]) :
                    /\ file_rows[st][i + 1].kind = "data"
                    /\ RowEvent(file_rows[st][i + 1]) = written[st][i]

\* The part of C5 that the code keeps: the data lines of a backup file are
\* the events whose write succeeded, in scan order, and a step only appends.
DataLines(rows) == SelectSeq(rows, LAMBDA r : r.kind = "data")
C5_DataLines ==
    \A st \in Stations :
        /\ Len(DataLines(file_rows[st])) = Len(written[st])
        /\ \A i \in 1 .. Len(written[st]) :
                RowEvent(DataLines(file_rows[st])[i]) = written[st][i]
C5_AppendOnly ==
    [][\A st \in Stations :
            /\ Len(file_rows'[st]) >= Len(file_rows[st])
            /\ SubSeq(file_rows'[st], 1, Len(file_rows[st])) = file_rows[st]]_vars

\* The rows of a tab with a value in column A.
FilledRows(tab) == {i \in 1 .. Len(tab) : FirstColumnFilled(tab[i])}
Largest(S) == CHOOSE i \in S : \A j \in S : j <= i

\* C6: the row that a sync writes is the number of values of the first
\* column of the tab plus one, at least 2, whatever the tab holds.
C6_RowByCount ==
    \A s \in Sessions :
        pc[s] = "update" =>
            LET n == Cardinality(FilledRows(tabs[frame[s].station])) + 1 IN
            frame[s].next_row = IF n < 2 THEN 2 ELSE n

\* C6 as amended: the row that a sync writes is the row below the last value
\* of the first column of the tab, and row 2 when the column holds no value.
C6_RowBelowLast ==
    \A s \in Sessions :
        pc[s] = "update" =>
            LET filled == FilledRows(tabs[frame[s].station]) IN
            frame[s].next_row = IF filled = {} THEN 2 ELSE Largest(filled) + 1

\* A sync is about to write below a first column with a blank cell between
\* two values.
C6_Witness ==
    LET tab == tabs["DUD2"] IN
    /\ pc[1] = "update"
    /\ \E i, j, k \in 1 .. Len(tab) :
            /\ i < j /\ j < k
            /\ FirstColumnFilled(tab[i])
            /\ ~FirstColumnFilled(tab[j])
            /\ FirstColumnFilled(tab[k])
    /\ frame[1].next_row = Len(tab) + 1

\* C7: when the station of a scan has no worksheet (no entry in the map, or
\* None), the sync ends Skipped without raising, with a status message that
\* names the station and without a remote call, and the event of the scan is
\* in the ledger and in the backup file afterwards.
C7_NoTargetSkips ==
    [][\A s \in Sessions :
            (/\ pc[s] = "sync"
             /\ pc'[s] # "sync"
             /\ sheets[s][frame[s].station] \in {"missing", "none"}) =>
                /\ pc'[s] = "idle"
                /\ outcome'[s] = "skipped"
                /\ status_text'[s] = Msg("no_tab", <<>>, 0, frame[s].station)
                /\ calls'[s] = 0
                /\ tabs' = tabs
                /\ RecordedLocally(s)'
                /\ UNCHANGED <<local_data, disk>>]_vars

\* A scan of a station whose map entry is None was skipped.
C7_Witness ==
    /\ pc[1] = "idle"
    /\ outcome[1] = "skipped"
    /\ sheets[1][frame[1].station] = "none"
    /\ RecordedLocally(1)

\* C8: with a remote store that raises on every call, every valid scan is
\* still appended to the ledger and to the backup file and computes the count
\* and the alert of a healthy run, the status message reports the failure of
\* the sync, and no exception leaves the sync step.
C8_RemoteDown ==
    \A s \in Sessions :
        /\ outcome[s] # "exception"
        /\ Len(local_data[s]) = (IF s = 1 THEN scans ELSE 0)
        /\ (pc[s] = "idle" /\ outcome[s] = "sync_error") =>
                /\ status_text[s] = PlainMsg("sync_failed")
                /\ RecordedLocally(s)
                /\ Len(written[frame[s].station]) = scans
                /\ frame[s].count =
                        nth[s][<<frame[s].driver_id, frame[s].station, frame[s].scan_date>>]
                /\ AlertFor(s, frame[s].count)

\* Six scans of one driver against the failing store: the sixth counted 6 and
\* turned the state to BREAK_DUE, its sync failed, the file holds 7 lines.
C8_Witness ==
    /\ pc[1] = "idle"
    /\ outcome[1] = "sync_error"
    /\ frame[1].count = 6
    /\ count_color[1] = "yellow"
    /\ Len(local_data[1]) = 6
    /\ Len(file_rows["DUD2"]) = 7
    /\ tabs["DUD2"] = <<>>

\* C9: the sync step, whatever its outcome, changes only the status message
\* and the tab: the ledger, the backup files, the count message and the
\* colour are after it what they were before it.
C9_SyncFrame ==
    [][\A s \in Sessions :
            (pc[s] \in {"sync"} \cup RemotePcs /\ pc'[s] # pc[s]) =>
                UNCHANGED <<keys, local_data, sheets, count_message, count_color,
                            disk>>]_vars

\* A sync ran to its end, Synced, after a count.
C9_Witness ==
    /\ pc[1] = "idle"
    /\ outcome[1] = "synced"
    /\ count_message[1].kind = "scanned_today"
    /\ tabs[frame[1].station] # <<>>
    /\ status_text[1].kind = "uploaded"

\* C10: within a session every step leaves the ledger as it is or appends
\* one event at its end, and the start of a valid scan is the step that
\* appends, exactly one event.
C10_AppendOnly ==
    [][\A s \in Sessions :
            ~(keys[s] # {} /\ keys'[s] = {}) =>
                IF pc[s] = "idle" /\ pc'[s] = "csv_isfile"
                THEN local_data'[s] = Append(local_data[s], FrameEvent(s)')
                ELSE local_data'[s] = local_data[s]]_vars

\* A ledger of two events after a run that a failure of the file write ended.
C10_Witness ==
    /\ pc[1] = "idle"
    /\ outcome[1] = "exception"
    /\ Len(local_data[1]) = 2

\* The validated scans of session s so far with the driver, station and date
\* of its last scan, whatever became of their file writes.
TallyOfFrame(s) ==
    nth[s][<<frame[s].driver_id, frame[s].station, frame[s].scan_date>>]

\* C11: when the file write of a scan fails, the exception reaches the caller
\* and the event of that scan stays the last one of the ledger; the scans of a
\* driver, station and date whose file write failed are counted by every later
\* scan of the same driver, station and date.
C11_FailedWriteStays ==
    /\ (pc[1] = "idle" /\ outcome[1] = "exception") =>
            /\ local_data[1] # <<>>
            /\ local_data[1][Len(local_data[1])] = FrameEvent(1)
            /\ Len(TodayScans(local_data[1], frame[1].driver_id,
                              frame[1].scan_date, frame[1].station))
                    = TallyOfFrame(1)
    /\ Counted(1) => frame[1].count = TallyOfFrame(1)

\* The second scan of a driver at a station counts 2 although the file holds
\* one data line only: the write of the first one failed.
C11_Witness ==
    /\ Counted(1)
    /\ frame[1].count = 2
    /\ Len(local_data[1]) = 2
    /\ Len(written[frame[1].station]) = 1
    /\ Len(DataLines(file_rows[frame[1].station])) = 1

\* The ways a script run can have ended with every exception handled.
HandledOutcomes ==
    {"none", "ignored", "validation_error", "skipped", "synced", "sync_error"}

\* C12: no failure is fatal: whenever a script run has ended, no exception
\* has left scan_id (the request ended in a state that scan_id itself
\* reported), and the session is ready for the next submission.
C12_NoFailureFatal ==
    pc[1] = "idle" =>
        /\ outcome[1] \in HandledOutcomes
        /\ (keys[1] # {} => "local_data" \in keys[1])

\* The part of C12 that the code keeps: a validation failure, a missing tab
\* and a failed remote call end the run inside scan_id, and after every
\* failure, the one of the file write included, the next valid submission is
\* appended to the ledger and starts its file write.
C12_NextScanAccepted ==
    [][\A d \in DriverIds, st \in Stations :
            (PassesValidation(d) /\ Main(1, TRUE, d, st, sheets[1])) =>
                /\ outcome[1] \in HandledOutcomes \cup {"exception"}
                /\ outcome'[1] = "running"
                /\ pc'[1] = "csv_isfile"
                /\ Len(local_data'[1]) = Len(local_data[1]) + 1]_vars

\* C13: the driver id of every event of the ledger is not empty and has no
\* leading or trailing whitespace, and so has every data line of a backup
\* file and every data row of a tab; a scan counts the earlier scans of the
\* session whose id differs from its own by surrounding whitespace only.
C13_TrimmedIds ==
    /\ \A i \in 1 .. Len(local_data[1]) :
            /\ local_data[1][i][1] # <<>>
            /\ Strip(local_data[1][i][1]) = local_data[1][i][1]
    /\ \A st \in Stations :
            /\ \A i \in 1 .. Len(file_rows[st]) :
                    file_rows[st][i].kind = "data" =>
                        Strip(file_rows[st][i].driver_id) = file_rows[st][i].driver_id
            /\ \A i \in 1 .. Len(tabs[st]) :
                    tabs[st][i].kind = "data" =>
                        Strip(tabs[st][i].driver_id) = tabs[st][i].driver_id
    /\ Counted(1) =>
            frame[1].count =
                Len(SelectSeq(local_data[1],
                        LAMBDA e : /\ Strip(e[1]) = Strip(frame[1].driver_id)
                                   /\ e[3] = frame[1].scan_date
                                   /\ e[4] = frame[1].station))

\* The part of C13 that the code keeps: no event of the ledger has an id that
\* is empty or blank.
C13_NotBlank ==
    \A i \in 1 .. Len(local_data[1]) : Strip(local_data[1][i][1]) # <<>>

\* The row write w of the tab of station st is still where it was written.
InTab(st, w) == w.row <= Len(tabs[st]) /\ tabs[st][w.row] = w.data

\* C14: a row whose sync reported success is missing from the tab only when
\* a later write of another session went to the same row; the writes of a
\* tab that one session alone writes are all in the tab.
C14_LostOnlyToOtherWriter ==
    \A st \in Stations :
        \A i \in 1 .. Len(synced[st]) :
            ~InTab(st, synced[st][i]) =>
                \E j \in i + 1 .. Len(synced[st]) :
                    /\ synced[st][j].session # synced[st][i].session
                    /\ synced[st][j].row = synced[st][i].row

\* Both sessions read the same first column before either wrote, computed
\* the same row and reported an upload; the tab holds the event of session 2
\* and not the one of session 1.
C14_Witness ==
    /\ pc[1] = "idle" /\ pc[2] = "idle"
    /\ outcome[1] = "synced" /\ outcome[2] = "synced"
    /\ status_text[1] = Msg("uploaded", frame[1].driver_id, 0, frame[1].station)
    /\ frame[1].station = frame[2].station
    /\ frame[1].values = frame[2].values
    /\ frame[1].next_row = frame[2].next_row
    /\ FrameEvent(1) # FrameEvent(2)
    /\ \E i \in 1 .. Len(tabs[frame[1].station]) :
            /\ tabs[frame[1].station][i].kind = "data"
            /\ RowEvent(tabs[frame[1].station][i]) = FrameEvent(2)
    /\ \A i \in 1 .. Len(tabs[frame[1].station]) :
            tabs[frame[1].station][i].kind = "data" =>
                RowEvent(tabs[frame[1].station][i]) # FrameEvent(1)

\* A step of a script run of session s.
ActOf(s) ==
    \/ \E b \in BOOLEAN, d \in DriverIds, st \in Stations, conn \in ConnOutcomes(s) :
            Main(s, b, d, st, conn)
    \/ Step(s)
    \/ Fault(s)

\* The stations at which session t has scanned: their backup files are the
\* ones it has read and written.
StationsOf(t) == {local_data[t][i][4] : i \in 1 .. Len(local_data[t])}

\* What a step leaves of session t: its session state and the state of its
\* running scan.
SessionUntouched(t) ==
    /\ keys'[t] = keys[t]
    /\ local_data'[t] = local_data[t]
    /\ status_text'[t] = status_text[t]
    /\ count_message'[t] = count_message[t]
    /\ count_color'[t] = count_color[t]
    /\ sheets'[t] = sheets[t]
    /\ frame'[t] = frame[t]
    /\ pc'[t] = pc[t]
    /\ outcome'[t] = outcome[t]
    /\ nth'[t] = nth[t]

\* C15: a step of one session changes nothing that another session reads or
\* writes except the tabs: not its ledger, its counts or its status, and not
\* the backup file of a station at which it has scanned.
C15_OnlyTabsShared ==
    [][\A s \in Sessions, t \in Sessions :
            (s # t /\ ActOf(s)) =>
                /\ SessionUntouched(t)
                /\ \A st \in StationsOf(t) :
                        /\ file_rows'[st] = file_rows[st]
                        /\ (st \in file_on_disk') = (st \in file_on_disk)]_vars

\* C15 as the code has it: a step of one session changes nothing of the
\* session state of another session, its ledger and its counts included
\* (the backup file of a station is not part of it).
C15_OwnSessionState ==
    [][\A s \in Sessions, t \in Sessions :
            (s # t /\ ActOf(s)) => SessionUntouched(t)]_vars

\* The backup file of one station holds a line of each of two sessions, and
\* the ledger of neither holds the event of the other.
C15_Witness ==
    /\ Len(local_data[1]) = 1 /\ Len(local_data[2]) = 1
    /\ local_data[1][1] # local_data[2][1]
    /\ local_data[1][1][4] = local_data[2][1][4]
    /\ \A s \in Sessions :
            \E i \in 1 .. Len(file_rows[local_data[1][1][4]]) :
                /\ file_rows[local_data[1][1][4]][i].kind = "data"
                /\ RowEvent(file_rows[local_data[1][1][4]][i]) = local_data[s][1]

\* The sync of the scan of session s has started, or has ended.
SyncStarted(s) ==
    \/ pc[s] \in {"sync"} \cup RemotePcs
    \/ calls[s] > 0
    \/ pc[s] = "idle" /\ outcome[s] \in {"skipped", "synced", "sync_error"}

\* C16: whenever the sync of a scan has started, the event of the scan is
\* the last one of the ledger and the last data line of the backup file of
\* its station, written by a file write that succeeded; a scan whose file
\* write failed has made no remote call.
C16_LocalBeforeRemote ==
    /\ SyncStarted(1) =>
            /\ local_data[1] # <<>>
            /\ local_data[1][Len(local_data[1])] = FrameEvent(1)
            /\ written[frame[1].station] # <<>>
            /\ written[frame[1].station][Len(written[frame[1].station])] = FrameEvent(1)
            /\ DataLines(file_rows[frame[1].station]) # <<>>
            /\ RowEvent(DataLines(file_rows[frame[1].station])
                            [Len(DataLines(file_rows[frame[1].station]))])
                    = FrameEvent(1)
    /\ (pc[1] = "idle" /\ outcome[1] = "exception") =>
            /\ calls[1] = 0
            /\ Len(SelectSeq(synced[frame[1].station],
                              LAMBDA w : RowEvent(w.data) = FrameEvent(1)))
                    <= Len(SelectSeq(written[frame[1].station],
                                     LAMBDA e : e = FrameEvent(1)))

\* A scan whose file write failed after an earlier scan was uploaded: the
\* tab holds the row of the earlier scan only.
C16_Witness ==
    /\ pc[1] = "idle"
    /\ outcome[1] = "exception"
    /\ calls[1] = 0
    /\ Len(local_data[1]) = 2
    /\ Len(synced[frame[1].station]) = 1
    /\ Len(written[frame[1].station]) = 1

\* C17: with one writer and tabs that start without values, whichever remote
\* calls fail: a tab that a write has reached holds the header row in row 1
\* and nowhere else, the i-th successful sync of a station wrote row i + 1,
\* the row below all rows of the tab, and the rows from row 2 on are the rows
\* of the successful syncs in scan order; no data row is in row 1.
C17_HeaderThenSynced ==
    \A st \in Stations :
        /\ \A i \in 1 .. Len(synced[st]) : synced[st][i].row = i + 1
        /\ tabs[st] = <<>> => synced[st] = <<>>
        /\ tabs[st] # <<>> =>
                /\ tabs[st][1] = SheetHeader
                /\ Len(tabs[st]) = 1 + Len(synced[st])
                /\ \A i \in 1 .. Len(synced[st]) :
                        /\ tabs[st][i + 1] = synced[st][i].data
                        /\ tabs[st][i + 1].kind = "data"

\* A sync that wrote the header and failed at the next call, then a sync that
\* succeeded: the tab holds the header and the row of the second scan.
C17_Witness ==
    /\ pc[1] = "idle"
    /\ outcome[1] = "synced"
    /\ Len(local_data[1]) = 2
    /\ local_data[1][1][4] = frame[1].station
    /\ frame[1].existing_data = <<SheetHeader>>
    /\ frame[1].next_row = 2
    /\ Len(synced[frame[1].station]) = 1
    /\ Len(tabs[frame[1].station]) = 2
    /\ tabs[frame[1].station][1] = SheetHeader
    /\ RowEvent(tabs[frame[1].station][2]) = FrameEvent(1)

\* a is b with some of its elements left out.
RECURSIVE IsSubSeq(_, _)
IsSubSeq(a, b) ==
    IF a = <<>> THEN TRUE
    ELSE IF b = <<>> THEN FALSE
    ELSE IF Head(a) = Head(b) THEN IsSubSeq(Tail(a), Tail(b))
    ELSE IsSubSeq(a, Tail(b))

\* The events of the data rows of the tab of a station, from the top, and the
\* events of a station in the ledger of session s.
TabEvents(st) ==
    LET rows == SelectSeq(tabs[st], LAMBDA r : r.kind = "data") IN
    [i \in 1 .. Len(rows) |-> RowEvent(rows[i])]
LedgerEvents(s, st) == SelectSeq(local_data[s], LAMBDA e : e[4] = st)

\* C18: the events of the tab of a station are always a subsequence of the
\* events of that station in the ledger.
C18_TabWithinLedger ==
    \A st \in Stations : IsSubSeq(TabEvents(st), LedgerEvents(1, st))

\* The session has not been restarted: its ledger holds every scan that
\* passed validation.
NeverRestarted(s) == Len(local_data[s]) = scans

\* What holds of the tabs in every state: their events are a subsequence of
\* the events whose file write succeeded, in scan order, and a subsequence of
\* the ledger of a session that was not restarted.
TabsFollowScans ==
    \A st \in Stations :
        /\ IsSubSeq(TabEvents(st), written[st])
        /\ NeverRestarted(1) => IsSubSeq(TabEvents(st), LedgerEvents(1, st))

\* C18 as the code has it: a step changes the events of a tab only by adding
\* the event of the running scan below them, once, at the write of line 141,
\* which ends the scan; so the event of a skipped or failed sync is never
\* written by a later scan, and the events of a tab are a subsequence of the
\* scans of its station, and of the ledger as long as the session lives.
C18_OneWriteOwnEvent ==
    [][/\ TabsFollowScans'
       /\ \A st \in Stations :
            \/ TabEvents(st)' = TabEvents(st)
            \/ /\ pc[1] = "update" /\ pc'[1] = "idle"
               /\ st = frame[1].station
               /\ TabEvents(st)' = Append(TabEvents(st), FrameEvent(1))]_vars

\* After a restart a scan whose sync was skipped: the tab holds the event of
\* a scan of the session before, the ledger holds the skipped event only.
C18_Witness ==
    /\ pc[1] = "idle"
    /\ outcome[1] = "skipped"
    /\ scans = 2
    /\ Len(local_data[1]) = 1
    /\ Len(TabEvents(frame[1].station)) = 1
    /\ TabEvents(frame[1].station)[1] # FrameEvent(1)

\* Session s has a worksheet for one station and None for another one.
PartlyOpened(s) ==
    /\ \E st \in Stations : sheets[s][st] = "none"
    /\ \E st \in Stations : sheets[s][st] = "handle"

\* A scan of session s has ended at a station whose tab the session holds.
EndedWithTab(s) ==
    /\ pc[s] = "idle"
    /\ outcome[s] \in {"skipped", "synced", "sync_error"}
    /\ sheets[s][frame[s].station] = "handle"

C20_SessionScopedLedger ==
    /\ keys[1] = {} => local_data[1] = <<>>
    /\ Counted(1) =>
            /\ frame[1].count = TallyOfFrame(1)
            /\ frame[1].count <= Len(local_data[1])
            /\ AlertFor(1, TallyOfFrame(1))
    /\ \A st \in Stations :
            /\ Len(DataLines(file_rows[st])) = Len(written[st])
            /\ \A i \in 1 .. Len(written[st]) :
                    RowEvent(DataLines(file_rows[st])[i]) = written[st][i]

\* The first scan of a new session counts 1, without a reminder, while the
\* backup file holds six earlier lines of the same driver, station and date.
C20_Witness ==
    /\ Counted(1)
    /\ Len(local_data[1]) = 1
    /\ frame[1].count = 1
    /\ count_color[1] = "lightgreen"
    /\ count_message[1] = Msg("scanned_today", frame[1].driver_id, 1, frame[1].station)
    /\ Len(SelectSeq(DataLines(file_rows[frame[1].station]),
                     LAMBDA r : RowEvent(r) = FrameEvent(1))) = 7

====
